---- MODULE Spec2Model ----
(***************************************************************************)
(* Model of app/main.py: the Open Meteo Weather Prediction API.            *)
(*                                                                         *)
(* The process loads two pickled models and an optional metadata file at   *)
(* import time, then serves index, health, predict_rain and predict_precip.*)
(*                                                                         *)
(* Units.  Text is a sequence of one-character strings.  Probabilities     *)
(* and the threshold are in percent (50 is 0.5).  The regressor's output   *)
(* is in eighths of a millimetre (eighths are exact binary floats, so      *)
(* round() sees the exact value); precipitation_fall is in hundredths.     *)
(***************************************************************************)
EXTENDS Integers, Sequences, FiniteSets, TLC

VARIABLES
    pc,               \* where the process is: load_rain, load_precip, load_meta, serving, aborted
    rain_model,       \* module global rain_model
    precip_model,     \* module global precip_model
    rain_threshold,   \* module global rain_threshold
    meta1,            \* what the metadata path held at startup
    startup_error,    \* the RuntimeError that ended the import, "" when none
    libc_pads_year,   \* whether the build's strftime pads %Y to four digits
    response,         \* the response of the request being answered
    handled,          \* whether any request handler has run
    memo              \* an earlier response a client kept

vars == <<pc, rain_model, precip_model, rain_threshold, meta1, startup_error,
          libc_pads_year, response, handled, memo>>

(***************************************************************************)
(* Bounds                                                                  *)
(***************************************************************************)
\* The regressor returns -MaxEighths .. MaxEighths eighths of a millimetre.
MaxEighths == 5

\* A request's date carries at most this many characters after the day.
MaxTail == 1

(***************************************************************************)
(* Text                                                                    *)
(***************************************************************************)
Digits == <<"0", "1", "2", "3", "4", "5", "6", "7", "8", "9">>

DigitSet == {Digits[i] : i \in 1..10}

NonZeroDigitSet == DigitSet \ {"0"}

DigitVal(c) == (CHOOSE i \in 1..10 : Digits[i] = c) - 1

\* int() of a run of ASCII digits
RECURSIVE IntOf(_)
IntOf(s) ==
    IF s = <<>> THEN 0
    ELSE 10 * IntOf(SubSeq(s, 1, Len(s) - 1)) + DigitVal(s[Len(s)])

\* the decimal digits of n >= 0, no padding
RECURSIVE Decimal(_)
Decimal(n) ==
    IF n < 10 THEN <<Digits[n + 1]>>
    ELSE Decimal(n \div 10) \o <<Digits[(n % 10) + 1]>>

\* n >= 0 written with at least width digits, zero filled
RECURSIVE ZeroFill(_, _)
ZeroFill(n, width) ==
    LET d == Decimal(n)
    IN  IF Len(d) >= width THEN d ELSE <<"0">> \o ZeroFill(n, width - 1)

(***************************************************************************)
(* datetime: the proleptic Gregorian calendar of the standard library      *)
(***************************************************************************)
MINYEAR == 1

MAXYEAR == 9999

is_leap(year) == year % 4 = 0 /\ (year % 100 # 0 \/ year % 400 = 0)

DAYS_IN_MONTH == <<31, 28, 31, 30, 31, 30, 31, 31, 30, 31, 30, 31>>

days_in_month(year, month) ==
    IF month = 2 /\ is_leap(year) THEN 29 ELSE DAYS_IN_MONTH[month]

RECURSIVE DAYS_BEFORE_MONTH(_)
DAYS_BEFORE_MONTH(month) ==
    IF month = 1 THEN 0
    ELSE DAYS_BEFORE_MONTH(month - 1) + DAYS_IN_MONTH[month - 1]

days_before_year(year) ==
    LET y == year - 1
    IN  y * 365 + (y \div 4) - (y \div 100) + (y \div 400)

days_before_month(year, month) ==
    DAYS_BEFORE_MONTH(month) + (IF month > 2 /\ is_leap(year) THEN 1 ELSE 0)

ymd2ord(year, month, day) ==
    days_before_year(year) + days_before_month(year, month) + day

\* date.max.toordinal()
MAXORDINAL == ymd2ord(MAXYEAR, 12, 31)

ord2ymd(ordinal) ==
    LET n0   == ordinal - 1
        n400 == n0 \div 146097
        r400 == n0 % 146097
        n100 == r400 \div 36524
        r100 == r400 % 36524
        n4   == r100 \div 1461
        r4   == r100 % 1461
        n1   == r4 \div 365
        n    == r4 % 365
        year == n400 * 400 + 1 + n100 * 100 + n4 * 4 + n1
    IN  IF n1 = 4 \/ n100 = 4
        THEN [year |-> year - 1, month |-> 12, day |-> 31]
        ELSE LET leapyear == n1 = 3 /\ (n4 # 24 \/ n100 = 3)
                 guess    == (n + 50) \div 32
                 before   == DAYS_BEFORE_MONTH(guess)
                                + (IF guess > 2 /\ leapyear THEN 1 ELSE 0)
                 month    == IF before > n THEN guess - 1 ELSE guess
                 preceding ==
                     IF before > n
                     THEN before - (DAYS_IN_MONTH[month]
                                      + (IF month = 2 /\ leapyear THEN 1 ELSE 0))
                     ELSE before
             IN  [year |-> year, month |-> month, day |-> n - preceding + 1]

(***************************************************************************)
(* datetime.strptime(date, "%Y-%m-%d")                                     *)
(*                                                                         *)
(* _strptime compiles the format to the regular expression                 *)
(*   (?P<Y>\d\d\d\d)-(?P<m>1[0-2]|0[1-9]|[1-9])-                           *)
(*   (?P<d>3[0-1]|[1-2]\d|0[1-9]|[1-9]| [1-9])                             *)
(* matches it at the start of the text (re.match, alternatives tried in    *)
(* order), raises ValueError when text remains after the match, and then   *)
(* builds the date, which raises ValueError for year 0 or a day the month  *)
(* does not have.                                                          *)
(***************************************************************************)
At(s, i) == IF i >= 1 /\ i <= Len(s) THEN s[i] ELSE ""

\* the lengths of the month alternatives that match at position i, in order
MonthLens(s, i) ==
    (IF At(s, i) = "1" /\ At(s, i + 1) \in {"0", "1", "2"} THEN <<2>> ELSE <<>>)
    \o (IF At(s, i) = "0" /\ At(s, i + 1) \in NonZeroDigitSet THEN <<2>> ELSE <<>>)
    \o (IF At(s, i) \in NonZeroDigitSet THEN <<1>> ELSE <<>>)

\* the length of the first day alternative that matches at position j, 0 when none
DayLen(s, j) ==
    IF At(s, j) = "3" /\ At(s, j + 1) \in {"0", "1"} THEN 2
    ELSE IF At(s, j) \in {"1", "2"} /\ At(s, j + 1) \in DigitSet THEN 2
    ELSE IF At(s, j) = "0" /\ At(s, j + 1) \in NonZeroDigitSet THEN 2
    ELSE IF At(s, j) \in NonZeroDigitSet THEN 1
    ELSE IF At(s, j) = " " /\ At(s, j + 1) \in NonZeroDigitSet THEN 2
    ELSE 0

\* int() ignores surrounding blanks
StripBlank(s) == IF s # <<>> /\ s[1] = " " THEN Tail(s) ELSE s

NoDate == [ok |-> FALSE, year |-> 0, month |-> 0, day |-> 0]

strptime(s) ==
    IF ~(\A i \in 1..4 : At(s, i) \in DigitSet) \/ At(s, 5) # "-"
    THEN NoDate
    ELSE LET lens == MonthLens(s, 6)
             fits == {k \in 1..Len(lens) :
                         /\ At(s, 6 + lens[k]) = "-"
                         /\ DayLen(s, 7 + lens[k]) > 0}
         IN  IF fits = {}
             THEN NoDate
             ELSE LET k    == CHOOSE x \in fits : \A z \in fits : x <= z
                      mlen == lens[k]
                      dpos == 7 + mlen
                      dlen == DayLen(s, dpos)
                      year  == IntOf(SubSeq(s, 1, 4))
                      month == IntOf(SubSeq(s, 6, 5 + mlen))
                      day   == IntOf(StripBlank(SubSeq(s, dpos, dpos + dlen - 1)))
                  IN  IF dpos + dlen - 1 # Len(s)
                      THEN NoDate
                      ELSE IF year < MINYEAR \/ day > days_in_month(year, month)
                      THEN NoDate
                      ELSE [ok |-> TRUE, year |-> year, month |-> month, day |-> day]

(***************************************************************************)
(* datetime.strftime("%Y-%m-%d"): %m and %d are two digits; %Y is what     *)
(* the C library prints, which pads to four digits on some builds only.    *)
(***************************************************************************)
strftime(ordinal) ==
    LET t == ord2ymd(ordinal)
    IN  (IF libc_pads_year THEN ZeroFill(t.year, 4) ELSE Decimal(t.year))
        \o <<"-">> \o ZeroFill(t.month, 2) \o <<"-">> \o ZeroFill(t.day, 2)

(***************************************************************************)
(* The files the process reads at startup                                  *)
(***************************************************************************)
\* A pickled object: called on the all-zero feature row it returns out or raises.
Unset == [loaded |-> FALSE, raises |-> TRUE, out |-> 0]

Artifact(raises, out) == [loaded |-> TRUE, raises |-> raises, out |-> out]

Unreadable == [readable |-> FALSE, obj |-> Unset]

Probas == {30, 50}

RainFiles ==
    {Unreadable}
    \cup {[readable |-> TRUE, obj |-> Artifact(TRUE, 0)]}
    \cup {[readable |-> TRUE, obj |-> Artifact(FALSE, p)] : p \in Probas}

PrecipFiles ==
    {Unreadable}
    \cup {[readable |-> TRUE, obj |-> Artifact(TRUE, 0)]}
    \cup {[readable |-> TRUE, obj |-> Artifact(FALSE, e)] : e \in -MaxEighths..MaxEighths}

\* The metadata path: kind says what is there, has whether the JSON object has
\* a "threshold" entry, type and val what that entry is.
Meta(kind, has, type, val) == [kind |-> kind, has |-> has, type |-> type, val |-> val]

MetaFiles ==
    {Meta("missing", FALSE, "none", 0),
     Meta("unreadable", FALSE, "none", 0),
     Meta("badjson", FALSE, "none", 0),
     Meta("array", FALSE, "none", 0),
     Meta("object", FALSE, "none", 0),
     Meta("object", TRUE, "number", 30),
     Meta("object", TRUE, "number", 70),
     Meta("object", TRUE, "numeric string", 70),
     Meta("object", TRUE, "string", 0),
     Meta("object", TRUE, "null", 0),
     Meta("object", TRUE, "bool", 1)}

NoMeta == Meta("unread", FALSE, "none", 0)

(***************************************************************************)
(* Startup: the module body, lines 30-50                                   *)
(***************************************************************************)
DefaultThreshold == 50

\* joblib.load(path): the object, or an exception
joblib_load(file) == [raised |-> ~file.readable, obj |-> file.obj]

\* float(x) of a JSON value, in percent
to_float(type, val) ==
    IF type \in {"number", "numeric string"} THEN [raised |-> FALSE, value |-> val]
    ELSE IF type = "bool" THEN [raised |-> FALSE, value |-> val * 100]
    ELSE [raised |-> TRUE, value |-> 0]

\* line 48 taking a JSON number only, where the code converts with float()
load_threshold_numbers_only(meta) ==
    IF meta.kind = "object" /\ meta.has /\ meta.type = "number"
    THEN meta.val
    ELSE DefaultThreshold

\* the threshold left by lines 42-50 when the metadata path holds meta
load_threshold(meta) ==
    IF meta.kind = "missing" THEN DefaultThreshold
    ELSE IF meta.kind \in {"unreadable", "badjson"} THEN DefaultThreshold
    ELSE IF meta.kind = "object" /\ meta.has
    THEN LET f == to_float(meta.type, meta.val)
         IN  IF f.raised THEN DefaultThreshold ELSE f.value
    ELSE DefaultThreshold

NoResponse ==
    [endpoint |-> "none", request |-> <<>>, status |-> 0, body |-> [detail |-> ""]]

Init ==
    /\ pc = "load_rain"
    /\ rain_model = Unset
    /\ precip_model = Unset
    /\ rain_threshold = DefaultThreshold
    /\ meta1 = NoMeta
    /\ startup_error = ""
    /\ libc_pads_year \in BOOLEAN
    /\ response = NoResponse
    /\ handled = FALSE
    /\ memo = NoResponse

\* what a failed model load does to the import
rain_load_failed ==
    /\ pc' = "aborted"
    /\ startup_error' = "Failed to load rain model"
    /\ UNCHANGED rain_model

\* line 39 logging the failure and going on, where the code raises
precip_load_ignored ==
    /\ pc' = "load_meta"
    /\ startup_error' = "Failed to load precip model"
    /\ UNCHANGED precip_model

precip_load_failed ==
    /\ pc' = "aborted"
    /\ startup_error' = "Failed to load precip model"
    /\ UNCHANGED precip_model

load_rain ==
    /\ pc = "load_rain"
    /\ \E file \in RainFiles :
          LET r == joblib_load(file)
          IN  IF r.raised
              THEN rain_load_failed
              ELSE /\ rain_model' = r.obj
                   /\ pc' = "load_precip"
                   /\ UNCHANGED startup_error
    /\ UNCHANGED <<precip_model, rain_threshold, meta1, libc_pads_year,
                   response, handled, memo>>

load_precip ==
    /\ pc = "load_precip"
    /\ \E file \in PrecipFiles :
          LET r == joblib_load(file)
          IN  IF r.raised
              THEN precip_load_failed
              ELSE /\ precip_model' = r.obj
                   /\ pc' = "load_meta"
                   /\ UNCHANGED startup_error
    /\ UNCHANGED <<rain_model, rain_threshold, meta1, libc_pads_year,
                   response, handled, memo>>

load_meta ==
    /\ pc = "load_meta"
    /\ \E meta \in MetaFiles :
          /\ meta1' = meta
          /\ rain_threshold' = load_threshold(meta)
    /\ pc' = "serving"
    /\ UNCHANGED <<rain_model, precip_model, startup_error, libc_pads_year,
                   response, handled, memo>>

(***************************************************************************)
(* Request handlers                                                        *)
(***************************************************************************)
Reply(endpoint, request, status, body) ==
    [endpoint |-> endpoint, request |-> request, status |-> status, body |-> body]

BadDate == [detail |-> "Invalid date format. Use YYYY-MM-DD"]

PredictionError == [detail |-> "Prediction error"]

\* an exception no handler catches: the framework answers 500
InternalServerError == [detail |-> "Internal Server Error"]

\* input_date + timedelta(days=n): OverflowError past date.max
add_days(d, n) ==
    LET ordinal == ymd2ord(d.year, d.month, d.day) + n
    IN  [raised |-> ordinal > MAXORDINAL, ordinal |-> ordinal]

\* line 92 with > for >=
will_rain_strict(proba, threshold) == proba > threshold

\* bool(proba >= rain_threshold)
will_rain(proba, threshold) == proba >= threshold

\* line 119 without max(0.0, ...)
clamp_missing(precip) == precip

\* max(0.0, precip), in eighths
clamp(precip) == IF precip > 0 THEN precip ELSE 0

\* round(x, 2) of x eighths, in hundredths: correctly rounded, ties to even
round2(eighths) ==
    LET q == (eighths * 100) \div 8
        r == (eighths * 100) % 8
    IN  IF r < 4 THEN q
        ELSE IF r > 4 THEN q + 1
        ELSE IF q % 2 = 0 THEN q ELSE q + 1

\* a handler that runs line 42 again
globals_reloaded ==
    /\ rain_threshold' = DefaultThreshold
    /\ UNCHANGED <<rain_model, precip_model, meta1>>

\* a handler that keeps the last probability in the global threshold
globals_threshold_follows ==
    /\ rain_threshold' = rain_model.out
    /\ UNCHANGED <<rain_model, precip_model, meta1>>

\* the handlers assign no module global, and _empty_feature_frame only reads
\* the model's attributes
globals_untouched == UNCHANGED <<rain_model, precip_model, rain_threshold, meta1>>

rain_reply(date) ==
    LET d == strptime(date)
    IN  IF ~d.ok THEN Reply("rain", date, 400, BadDate)
        ELSE LET pred_date == add_days(d, 7)
             IN  IF pred_date.raised
                 THEN Reply("rain", date, 500, InternalServerError)
                 ELSE IF rain_model.raises
                 THEN Reply("rain", date, 500, PredictionError)
                 ELSE Reply("rain", date, 200,
                            [input_date |-> date,
                             date |-> strftime(pred_date.ordinal),
                             will_rain |-> will_rain(rain_model.out, rain_threshold)])

precip_reply(date) ==
    LET d == strptime(date)
    IN  IF ~d.ok THEN Reply("precip", date, 400, BadDate)
        ELSE LET start_date == add_days(d, 1)
                 end_date   == add_days(d, 3)
             IN  IF start_date.raised \/ end_date.raised
                 THEN Reply("precip", date, 500, InternalServerError)
                 ELSE IF precip_model.raises
                 THEN Reply("precip", date, 500, PredictionError)
                 ELSE Reply("precip", date, 200,
                            [input_date |-> date,
                             start_date |-> strftime(start_date.ordinal),
                             end_date |-> strftime(end_date.ordinal),
                             precipitation_fall |-> round2(clamp(precip_model.out))])

Idle == pc = "serving" /\ response = NoResponse

index ==
    /\ Idle
    /\ response' = Reply("index", <<>>, 200, [input_date_format |-> "YYYY-MM-DD"])
    /\ handled' = TRUE
    /\ globals_untouched
    /\ UNCHANGED <<pc, startup_error, libc_pads_year, memo>>

health ==
    /\ Idle
    /\ response' = Reply("health", <<>>, 200, [status |-> "ok"])
    /\ handled' = TRUE
    /\ globals_untouched
    /\ UNCHANGED <<pc, startup_error, libc_pads_year, memo>>

predict_rain(date) ==
    /\ Idle
    /\ response' = rain_reply(date)
    /\ handled' = TRUE
    /\ globals_untouched
    /\ UNCHANGED <<pc, startup_error, libc_pads_year, memo>>

predict_precip(date) ==
    /\ Idle
    /\ response' = precip_reply(date)
    /\ handled' = TRUE
    /\ globals_untouched
    /\ UNCHANGED <<pc, startup_error, libc_pads_year, memo>>

\* The framework sends the response and the request is over; a client may keep
\* what a prediction endpoint answered.
deliver(keep) ==
    /\ pc = "serving"
    /\ response # NoResponse
    /\ response' = NoResponse
    /\ memo' = IF keep /\ response.endpoint \in {"rain", "precip"}
               THEN response ELSE memo
    /\ UNCHANGED <<pc, rain_model, precip_model, rain_threshold, meta1,
                   startup_error, libc_pads_year, handled>>

(***************************************************************************)
(* Requests                                                                *)
(***************************************************************************)
\* year, month and day written with the given widths, separators and tail
DateText(yw, y, s1, mw, m, s2, dw, d, tail) ==
    ZeroFill(y, yw) \o s1 \o ZeroFill(m, mw) \o s2 \o ZeroFill(d, dw) \o tail

TailChars == {" ", "T", "0"}

RECURSIVE Tails(_)
Tails(n) ==
    IF n = 0 THEN {<<>>}
    ELSE Tails(n - 1) \cup {t \o <<c>> : t \in Tails(n - 1), c \in TailChars}

Separators == {<<"-">>, <<"/">>, <<>>}

Years == {0, 1, 999, 1900, 2000, 2023, 2024, 9999}

Months == {0, 1, 2, 4, 12, 13}

Days == {0, 1, 9, 22, 24, 25, 28, 29, 30, 31, 32}

\* The date strings a client sends: every year, month and day above with one-
\* or two-digit month and day, and around a few dates other year widths,
\* other separators, a blank before the day, a leading blank and trailing text.
Dates ==
    {DateText(4, y, <<"-">>, mw, m, <<"-">>, dw, d, <<>>) :
        y \in Years, m \in Months, d \in Days, mw \in {1, 2}, dw \in {1, 2}}
    \cup {DateText(yw, y, s1, 2, 12, s2, 2, d, t) :
        yw \in {2, 4, 5}, y \in {24, 2024}, s1 \in Separators, s2 \in Separators,
        d \in {3, 29}, t \in Tails(MaxTail)}
    \cup {DateText(4, 2024, <<"-">>, 2, 2, <<"-", " ">>, 1, d, <<>>) : d \in {0, 5}}
    \cup {<<" ">> \o DateText(4, 2024, <<"-">>, 2, 2, <<"-">>, 2, 5, <<>>)}
    \cup {<<>>}

\* The requests the full process is driven with.
ProbeDates ==
    {DateText(4, 2024, <<"-">>, 2, 2, <<"-">>, 2, 28, <<>>),
     DateText(4, 2024, <<"-">>, 1, 1, <<"-">>, 1, 5, <<>>),
     DateText(4, 9999, <<"-">>, 2, 12, <<"-">>, 2, 30, <<>>),
     DateText(4, 2023, <<"-">>, 2, 2, <<"-">>, 2, 29, <<>>),
     DateText(4, 1, <<"-">>, 2, 1, <<"-">>, 2, 1, <<>>),
     DateText(4, 2024, <<"/">>, 2, 1, <<"/">>, 2, 5, <<>>)}

(***************************************************************************)
(* The process from its start, driven with ProbeDates                      *)
(***************************************************************************)
Next ==
    \/ load_rain
    \/ load_precip
    \/ load_meta
    \/ index
    \/ health
    \/ \E date \in ProbeDates : predict_rain(date)
    \/ \E date \in ProbeDates : predict_precip(date)
    \/ \E keep \in BOOLEAN : deliver(keep)

Spec == Init /\ [][Next]_vars

(***************************************************************************)
(* The process after a startup that found both models and no metadata,     *)
(* driven with Dates                                                       *)
(***************************************************************************)
InitServing ==
    /\ pc = "serving"
    /\ rain_model \in {Artifact(TRUE, 0), Artifact(FALSE, 50)}
    /\ precip_model \in {Artifact(TRUE, 0), Artifact(FALSE, 3)}
    /\ rain_threshold = load_threshold(Meta("missing", FALSE, "none", 0))
    /\ meta1 = Meta("missing", FALSE, "none", 0)
    /\ startup_error = ""
    /\ libc_pads_year \in BOOLEAN
    /\ response = NoResponse
    /\ handled = FALSE
    /\ memo = NoResponse

NextDates ==
    \/ index
    \/ health
    \/ \E date \in Dates : predict_rain(date)
    \/ \E date \in Dates : predict_precip(date)
    \/ deliver(FALSE)

SpecDates == InitServing /\ [][NextDates]_vars

(***************************************************************************)
(* The calendar, stated without ordinals: what the claims are read against *)
(***************************************************************************)
\* text of exactly the form YYYY-MM-DD naming a date of the years 1 to 9999
IsStrictDate(s) ==
    /\ Len(s) = 10
    /\ \A i \in {1, 2, 3, 4, 6, 7, 9, 10} : s[i] \in DigitSet
    /\ s[5] = "-" /\ s[8] = "-"
    /\ LET y == IntOf(SubSeq(s, 1, 4))
           m == IntOf(SubSeq(s, 6, 7))
           d == IntOf(SubSeq(s, 9, 10))
       IN  /\ y >= 1
           /\ m \in 1..12
           /\ d >= 1
           /\ d <= (IF m = 2
                    THEN (IF y % 4 = 0 /\ (y % 100 # 0 \/ y % 400 = 0) THEN 29 ELSE 28)
                    ELSE IF m \in {4, 6, 9, 11} THEN 30 ELSE 31)

FieldsOf(s) ==
    [year |-> IntOf(SubSeq(s, 1, 4)), month |-> IntOf(SubSeq(s, 6, 7)),
     day |-> IntOf(SubSeq(s, 9, 10))]

LastDay(t) ==
    IF t.month = 2
    THEN (IF t.year % 4 = 0 /\ (t.year % 100 # 0 \/ t.year % 400 = 0) THEN 29 ELSE 28)
    ELSE IF t.month \in {4, 6, 9, 11} THEN 30 ELSE 31

NextDay(t) ==
    IF t.day < LastDay(t) THEN [t EXCEPT !.day = t.day + 1]
    ELSE IF t.month < 12 THEN [t EXCEPT !.month = t.month + 1, !.day = 1]
    ELSE [year |-> t.year + 1, month |-> 1, day |-> 1]

RECURSIVE PlusDays(_, _)
PlusDays(t, n) == IF n = 0 THEN t ELSE PlusDays(NextDay(t), n - 1)

Canonical(t) ==
    ZeroFill(t.year, 4) \o <<"-">> \o ZeroFill(t.month, 2) \o <<"-">> \o ZeroFill(t.day, 2)

IsPrediction == response.endpoint \in {"rain", "precip"}

ModelOf(endpoint) == IF endpoint = "rain" THEN rain_model ELSE precip_model

(***************************************************************************)
(* Claims about the dates and the status, under SpecDates                  *)
(***************************************************************************)
\* C1: for every valid YYYY-MM-DD date (month ends, year ends, leap days and
\* the extremes of the year range included) predict_rain answers with
\* prediction.date equal to the input date plus 7 calendar days, written
\* YYYY-MM-DD.
RainDateIsInputPlus7 ==
    (/\ response.endpoint = "rain"
     /\ IsStrictDate(response.request)
     /\ ~rain_model.raises)
    => /\ response.status = 200
       /\ response.body.date = Canonical(PlusDays(FieldsOf(response.request), 7))

\* C2: for every valid YYYY-MM-DD date predict_precip answers with start_date
\* the input date plus 1 day and end_date the input date plus 3 days, so
\* end_date is 2 days after start_date.
PrecipWindowIsInputPlus1To3 ==
    (/\ response.endpoint = "precip"
     /\ IsStrictDate(response.request)
     /\ ~precip_model.raises)
    => /\ response.status = 200
       /\ response.body.start_date = Canonical(PlusDays(FieldsOf(response.request), 1))
       /\ response.body.end_date = Canonical(PlusDays(FieldsOf(response.request), 3))
       /\ \E t \in {PlusDays(FieldsOf(response.request), 1)} :
             /\ response.body.start_date = Canonical(t)
             /\ response.body.end_date = Canonical(PlusDays(t, 2))

\* C3: every date string that is not exactly of the form YYYY-MM-DD naming a
\* real calendar date is rejected by both prediction endpoints with status 400.
MalformedDateIsRejected ==
    (IsPrediction /\ ~IsStrictDate(response.request)) => response.status = 400

\* C4: the status of a prediction endpoint is 400 if the date is malformed,
\* 500 if the date is valid and the model raises, and 200 in every other
\* case; a 200 body carries the input date string unchanged.
StatusIsDecidedByDateAndModel ==
    IsPrediction =>
        /\ response.status =
              (IF ~IsStrictDate(response.request) THEN 400
               ELSE IF ModelOf(response.endpoint).raises THEN 500
               ELSE 200)
        /\ response.status = 200 => response.body.input_date = response.request

(***************************************************************************)
(* Claims about the predictions and the process, under Spec                *)
(***************************************************************************)
\* C5: whatever the regressor returns (negative, zero, positive), the
\* precipitation_fall of a 200 response is never negative: 0 when the model
\* output is at most 0, otherwise the output rounded to 2 decimal places
\* (the hundredth nearest to it, the even one of two equally near).
PrecipitationIsNeverNegative ==
    (response.endpoint = "precip" /\ response.status = 200) =>
        LET out  == precip_model.out
            fall == response.body.precipitation_fall
            off  == 8 * fall - 100 * out
        IN  /\ fall >= 0
            /\ out <= 0 => fall = 0
            /\ out > 0 => /\ off \in -4..4
                          /\ off \in {-4, 4} => fall % 2 = 0

PrecipitationClampedWitness ==
    /\ response.endpoint = "precip"
    /\ response.status = 200
    /\ precip_model.out < 0
    /\ response.body.precipitation_fall = 0

\* C6: in every 200 response of predict_rain, will_rain is a boolean, true
\* exactly when the classifier's probability is at least the loaded
\* rain_threshold; a probability equal to the threshold gives true.
WillRainIffAtLeastThreshold ==
    (response.endpoint = "rain" /\ response.status = 200) =>
        /\ response.body.will_rain \in BOOLEAN
        /\ response.body.will_rain <=> ~(rain_model.out < rain_threshold)
        /\ rain_model.out = rain_threshold => response.body.will_rain = TRUE

WillRainAtThresholdWitness ==
    /\ response.endpoint = "rain"
    /\ response.status = 200
    /\ rain_model.out = rain_threshold
    /\ rain_threshold # DefaultThreshold
    /\ response.body.will_rain = TRUE

\* C7: once startup is over, no request to index, health, predict_rain or
\* predict_precip, successful or failing, changes rain_model, precip_model
\* or rain_threshold.
GlobalsNeverChangeAfterStartup ==
    [][pc = "serving" => UNCHANGED <<rain_model, precip_model, rain_threshold>>]_vars

GlobalsKeptWitness ==
    /\ pc = "serving"
    /\ memo.status \in {400, 500}
    /\ response.status = 200
    /\ response.endpoint = "rain"
    /\ rain_threshold # DefaultThreshold
    /\ rain_threshold = load_threshold(meta1)

\* C8: with the model and the threshold fixed, two requests with the same
\* date to the same endpoint get the same response, whatever was served
\* before or between them.
SameRequestSameResponse ==
    (/\ IsPrediction
     /\ memo.endpoint = response.endpoint
     /\ memo.request = response.request)
    => memo = response

SameRequestTwiceWitness ==
    /\ IsPrediction
    /\ memo.endpoint = response.endpoint
    /\ memo.request = response.request
    /\ response.status = 200

\* C9: startup is all-or-nothing for the models: when loading the rain model
\* or the precipitation model fails, startup aborts with a fatal error and
\* no request is ever handled; a handler only runs with both models loaded.
StartupIsAllOrNothing ==
    /\ startup_error # "" => pc = "aborted"
    /\ pc = "aborted" => /\ startup_error # ""
                         /\ ~handled
                         /\ response = NoResponse
    /\ (handled \/ response # NoResponse \/ pc = "serving") =>
           /\ rain_model.loaded
           /\ precip_model.loaded
           /\ startup_error = ""

StartupAbortedWitness ==
    /\ pc = "aborted"
    /\ rain_model.loaded
    /\ ~precip_model.loaded
    /\ startup_error = "Failed to load precip model"

\* C10: the metadata file is optional and never fatal: after startup
\* rain_threshold is 0.5 unless the file exists, parses as a JSON object and
\* has a threshold entry convertible to a number, and then it is that number.
ThresholdComesFromMetadata ==
    /\ pc = "aborted" => meta1 = NoMeta
    /\ meta1 # NoMeta => pc = "serving"
    /\ pc = "serving" =>
          /\ meta1 \in MetaFiles
          /\ rain_threshold =
                (IF /\ meta1.kind = "object"
                    /\ meta1.has
                    /\ meta1.type \in {"number", "numeric string", "bool"}
                 THEN (IF meta1.type = "bool" THEN 100 * meta1.val ELSE meta1.val)
                 ELSE 50)

ThresholdNotNumericWitness ==
    /\ pc = "serving"
    /\ meta1.kind = "object"
    /\ meta1.has
    /\ meta1.type = "string"
    /\ rain_threshold = 50
    /\ handled

====
